---- MODULE Spec2Model ----
(***************************************************************************)
(* A model of interactive_calc_template.py: the value parser parse_value   *)
(* and the form controller VariableInterface.                              *)
(*                                                                         *)
(* Python strings are sequences of one-character strings, so that strip(), *)
(* lower(), f'var{i}', k[3:] and int() are computed and not assumed.        *)
(***************************************************************************)
EXTENDS Integers, Sequences, FiniteSets, TLC

VARIABLES JUPYTER_MODE, n_variables, callback, value_widgets, name_widgets,
          n_input, var_container, status, raised, ret,
          parse_in, parse_out

vars == <<JUPYTER_MODE, n_variables, callback, value_widgets, name_widgets,
          n_input, var_container, status, raised, ret,
          parse_in, parse_out>>

form == <<JUPYTER_MODE, n_variables, callback, value_widgets, name_widgets,
          n_input, var_container, status, raised, ret>>

----------------------------------------------------------------------------
(* Bounds of the model.                                                    *)

\* Count requests 0..MaxReq are typed into the count field (besides the
\* out-of-range ones of Requests).
MaxReq == 3
\* The user edits the texts of slots 1..EditIdx.
EditIdx == 2
\* At most MaxPad blanks are typed before and after a text given to parse_value.
MaxPad == 1

\* The counts the handler clamps to (lines 243-248).
MinVars == 1
MaxVars == 50

\* The default n_variables of the constructor (line 89).
DefaultCount == 3

----------------------------------------------------------------------------
(* Strings.                                                                *)

Digits == <<"0", "1", "2", "3", "4", "5", "6", "7", "8", "9">>

IsDigit(c) == \E d \in 1..Len(Digits) : Digits[d] = c

DigitOf(c) == (CHOOSE d \in 1..Len(Digits) : Digits[d] = c) - 1

\* str(i) and f'{i}' of an integer.
RECURSIVE str(_)
str(i) ==
    IF i < 0 THEN <<"-">> \o str(-i)
    ELSE IF i < Len(Digits) THEN <<Digits[i + 1]>>
    ELSE str(i \div Len(Digits)) \o <<Digits[(i % Len(Digits)) + 1]>>

\* int(s) of a string of decimal digits.
RECURSIVE int(_)
int(s) ==
    IF Len(s) = 1 THEN DigitOf(s[1])
    ELSE Len(Digits) * int(SubSeq(s, 1, Len(s) - 1)) + DigitOf(s[Len(s)])

\* key = f'var{i}'
Key(i) == <<"v", "a", "r">> \o str(i)

\* int(k[3:])
KeyIndex(k) == int(SubSeq(k, 4, Len(k)))

----------------------------------------------------------------------------
(* Python dicts: [keys, map], the keys in insertion order and the value   *)
(* of each key.                                                            *)

EmptyDict == [keys |-> <<>>, map |-> [k \in {} |-> k]]

DictHas(d, k) == k \in DOMAIN d.map

DictGet(d, k) == d.map[k]

\* A d[k] = v that leaves an existing key as it is.
DictSetFirstWins(d, k, v) ==
    IF DictHas(d, k) THEN d
    ELSE [keys |-> Append(d.keys, k), map |-> (k :> v) @@ d.map]

\* d[k] = v: an existing key keeps its place, a new key goes last.
DictSet(d, k, v) ==
    IF DictHas(d, k) THEN [d EXCEPT !.map[k] = v]
    ELSE [keys |-> Append(d.keys, k), map |-> (k :> v) @@ d.map]

\* del d[k] for every k of the sequence ks
DictDelAll(d, ks) ==
    LET gone == {ks[m] : m \in 1..Len(ks)}
    IN  [keys |-> SelectSeq(d.keys, LAMBDA k : k \notin gone),
         map |-> [k \in (DOMAIN d.map) \ gone |-> d.map[k]]]

DictKeys(d) == d.keys

DictLen(d) == Len(d.keys)

----------------------------------------------------------------------------
(* str.strip() and str.lower() (line 45).                                  *)

Blank == {" ", "\t"}

UpperCase == <<"A", "B", "C", "D", "E", "F", "G", "H", "I", "J", "K", "L", "M",
               "N", "O", "P", "Q", "R", "S", "T", "U", "V", "W", "X", "Y", "Z">>

LowerCase == <<"a", "b", "c", "d", "e", "f", "g", "h", "i", "j", "k", "l", "m",
               "n", "o", "p", "q", "r", "s", "t", "u", "v", "w", "x", "y", "z">>

LowerChar(c) ==
    IF \E u \in 1..Len(UpperCase) : UpperCase[u] = c
    THEN LowerCase[CHOOSE u \in 1..Len(UpperCase) : UpperCase[u] = c]
    ELSE c

UpperChar(c) ==
    IF \E u \in 1..Len(LowerCase) : LowerCase[u] = c
    THEN UpperCase[CHOOSE u \in 1..Len(LowerCase) : LowerCase[u] = c]
    ELSE c

lower(s) == [m \in 1..Len(s) |-> LowerChar(s[m])]

upper(s) == [m \in 1..Len(s) |-> UpperChar(s[m])]

lstrip(s) ==
    LET first == CHOOSE m \in 1..(Len(s) + 1) :
                     /\ m = Len(s) + 1 \/ s[m] \notin Blank
                     /\ \A q \in 1..(m - 1) : s[q] \in Blank
    IN  SubSeq(s, first, Len(s))

rstrip(s) ==
    LET last == CHOOSE m \in 0..Len(s) :
                    /\ m = 0 \/ s[m] \notin Blank
                    /\ \A q \in (m + 1)..Len(s) : s[q] \in Blank
    IN  SubSeq(s, 1, last)

strip(s) == rstrip(lstrip(s))

\* text = str(text).strip().lower()
Normalize(s) == lower(strip(s))

----------------------------------------------------------------------------
(* Python values: [kind, repr].  kind is the type of the object ("int",    *)
(* "float", "complex", "str", "function", "type"); repr is its value: the  *)
(* decimal digits of an int, the characters of a str, and for the other    *)
(* kinds the expression that denotes it (floating-point arithmetic is not  *)
(* carried out: np.sqrt(2) is the float "sqrt(2)").                         *)

Val(kind, repr) == [kind |-> kind, repr |-> repr]

Numeric == {"int", "float", "complex"}

c_pi == <<"p", "i">>
c_e == <<"e">>
c_i == <<"i">>
c_j == <<"j">>
c_sqrt == <<"s", "q", "r", "t">>
c_sqrt2 == c_sqrt \o <<"2">>
c_sqrt3 == c_sqrt \o <<"3">>
c_phi == <<"p", "h", "i">>
c_inf == <<"i", "n", "f">>
c_nan == <<"n", "a", "n">>
c_exp == <<"e", "x", "p">>
c_log == <<"l", "o", "g">>
c_sin == <<"s", "i", "n">>
c_cos == <<"c", "o", "s">>

\* np.sqrt(2), np.sqrt(3): the float a call of sqrt returns.
SqrtOf(d) == Val("float", c_sqrt \o <<"(", d, ")">>)

\* 1j
ImagUnit == Val("complex", <<"1", "j">>)

Entry(k, v) == [k |-> k, v |-> v]

\* CONSTANTS (lines 26-36)
CONSTANTS_ ==
    << Entry(c_pi, Val("float", c_pi)),
       Entry(c_e, Val("float", c_e)),
       Entry(c_i, ImagUnit),
       Entry(c_j, ImagUnit),
       Entry(c_sqrt2, SqrtOf("2")),
       Entry(c_sqrt3, SqrtOf("3")),
       Entry(c_phi, Val("float", c_phi)),
       Entry(c_inf, Val("float", c_inf)),
       Entry(c_nan, Val("float", c_nan)) >>

\* namespace (lines 54-68): no nan, and the five functions.
namespace ==
    << Entry(c_pi, Val("float", c_pi)),
       Entry(c_e, Val("float", c_e)),
       Entry(c_i, ImagUnit),
       Entry(c_j, ImagUnit),
       Entry(c_sqrt, Val("function", c_sqrt)),
       Entry(c_sqrt2, SqrtOf("2")),
       Entry(c_sqrt3, SqrtOf("3")),
       Entry(c_phi, Val("float", c_phi)),
       Entry(c_inf, Val("float", c_inf)),
       Entry(c_exp, Val("function", c_exp)),
       Entry(c_log, Val("function", c_log)),
       Entry(c_sin, Val("function", c_sin)),
       Entry(c_cos, Val("function", c_cos)) >>

----------------------------------------------------------------------------
(* eval(text, {"__builtins__": {}}, namespace) (line 69), over expressions *)
(* made of decimal literals (integer, with a decimal point, imaginary),     *)
(* quoted strings, names, calls of one argument, attribute access,         *)
(* parentheses and + - * / **.  A text outside this grammar is a           *)
(* SyntaxError here; the texts given to it hold no other Python syntax     *)
(* (no keyword, exponent literal, comma, comparison or subscript).         *)

DigitSet == {Digits[d] : d \in 1..Len(Digits)}

IdentStart == {LowerCase[u] : u \in 1..Len(LowerCase)}
                  \cup {UpperCase[u] : u \in 1..Len(UpperCase)} \cup {"_"}

IdentChars == IdentStart \cup DigitSet

Quote == "'"

\* The first position from i on whose character is not in C (Len(s) + 1 if none).
SpanEnd(s, i, C) ==
    CHOOSE m \in i..(Len(s) + 1) :
        /\ m = Len(s) + 1 \/ s[m] \notin C
        /\ \A q \in i..(m - 1) : s[q] \in C

Tok(t, s) == [t |-> t, s |-> s]

BadTok == Tok("bad", <<>>)

\* An integer literal with a leading zero is a SyntaxError unless it is all zeros.
LeadingZero(ds) == Len(ds) > 1 /\ ds[1] = "0" /\ \E m \in 1..Len(ds) : ds[m] # "0"

\* The literal starting at s[i] (a digit, or a point before a digit), and the
\* position after it.
NumberTok(s, i) ==
    LET a == SpanEnd(s, i, DigitSet)
        point == a <= Len(s) /\ s[a] = "."
        b == IF point THEN SpanEnd(s, a + 1, DigitSet) ELSE a
        ds == SubSeq(s, i, b - 1)
        glued == b <= Len(s) /\ s[b] \in IdentChars
        imag == /\ glued
                /\ s[b] = "j"
                /\ (b + 1 > Len(s) \/ s[b + 1] \notin IdentChars)
    IN  IF imag THEN [tok |-> Tok("imag", ds), next |-> b + 1]
        ELSE IF glued THEN [tok |-> BadTok, next |-> b]
        ELSE IF point THEN [tok |-> Tok("float", ds), next |-> b]
        ELSE IF LeadingZero(ds) THEN [tok |-> BadTok, next |-> b]
        ELSE [tok |-> Tok("int", ds), next |-> b]

RECURSIVE Tokens(_, _)
Tokens(s, i) ==
    IF i > Len(s) THEN <<>>
    ELSE IF s[i] \in Blank THEN Tokens(s, i + 1)
    ELSE IF s[i] \in DigitSet
              \/ (s[i] = "." /\ i < Len(s) /\ s[i + 1] \in DigitSet)
         THEN LET n == NumberTok(s, i)
              IN  IF n.tok.t = "bad" THEN <<BadTok>>
                  ELSE <<n.tok>> \o Tokens(s, n.next)
    ELSE IF s[i] \in IdentStart
         THEN LET b == SpanEnd(s, i, IdentChars)
              IN  <<Tok("name", SubSeq(s, i, b - 1))>> \o Tokens(s, b)
    ELSE IF s[i] = Quote
         THEN LET b == SpanEnd(s, i + 1, {s[m] : m \in 1..Len(s)} \ {Quote})
              IN  IF b > Len(s) THEN <<BadTok>>
                  ELSE <<Tok("str", SubSeq(s, i + 1, b - 1))>> \o Tokens(s, b + 1)
    ELSE IF s[i] = "*" /\ i < Len(s) /\ s[i + 1] = "*"
         THEN <<Tok("op", <<"*", "*">>)>> \o Tokens(s, i + 2)
    ELSE IF s[i] \in {"+", "-", "*", "/", "(", ")", "."}
         THEN <<Tok("op", <<s[i]>>)>> \o Tokens(s, i + 1)
    ELSE <<BadTok>>

Tokenize(s) == Tokens(s, 1)

----------------------------------------------------------------------------
(* The values of literals and operations.                                  *)

None == Val("none", <<>>)

\* The integer an int value holds.
IntOf(v) == IF v.repr[1] = "-" THEN 0 - int(Tail(v.repr)) ELSE int(v.repr)

IntVal(n) == Val("int", str(n))

\* The digits of a literal with a decimal point, as the float prints: no leading
\* zero of the integer part, no trailing zero of the fraction.
CanonFloat(ds) ==
    LET dot == CHOOSE m \in 1..Len(ds) : ds[m] = "."
        ip == SubSeq(ds, 1, dot - 1)
        fp == SubSeq(ds, dot + 1, Len(ds))
        keep == CHOOSE m \in 0..Len(fp) :
                    /\ m = 0 \/ fp[m] # "0"
                    /\ \A q \in (m + 1)..Len(fp) : fp[q] = "0"
    IN  (IF ip = <<>> THEN <<"0">> ELSE str(int(ip)))
            \o <<".">>
            \o (IF keep = 0 THEN <<"0">> ELSE SubSeq(fp, 1, keep))

HasPoint(ds) == \E m \in 1..Len(ds) : ds[m] = "."

LiteralVal(tok) ==
    CASE tok.t = "int" -> IntVal(int(tok.s))
      [] tok.t = "float" -> Val("float", CanonFloat(tok.s))
      [] tok.t = "imag" ->
            Val("complex",
                (IF HasPoint(tok.s) THEN CanonFloat(tok.s) ELSE str(int(tok.s)))
                    \o <<"j">>)
      [] tok.t = "str" -> Val("str", tok.s)

\* An operation either returns a value or raises.
Ok(v) == [ok |-> TRUE, val |-> v]
Raise == [ok |-> FALSE, val |-> None]

RECURSIVE IntPow(_, _)
IntPow(b, x) == IF x = 0 THEN 1 ELSE b * IntPow(b, x - 1)

RECURSIVE Repeat(_, _)
Repeat(s, n) == IF n <= 0 THEN <<>> ELSE s \o Repeat(s, n - 1)

IsZero(v) ==
    \/ v.kind = "int" /\ IntOf(v) = 0
    \/ v.kind = "float" /\ v.repr = <<"0", ".", "0">>

Join(a, b) == IF "complex" \in {a.kind, b.kind} THEN "complex" ELSE "float"

Symbolic(op, a, b) == <<"(">> \o a.repr \o op \o b.repr \o <<")">>

\* a op b.  Integer arithmetic is exact; an operation with a float or complex
\* operand gives the expression.  (A numpy scalar divided by zero gives inf
\* with a warning where a Python float raises, and a negative float to a
\* fractional power is complex: no text of the model does either.)
BinOp(op, a, b) ==
    IF a.kind = "str" /\ b.kind = "str" /\ op = <<"+">>
        THEN Ok(Val("str", a.repr \o b.repr))
    ELSE IF a.kind = "str" /\ b.kind = "int" /\ op = <<"*">>
        THEN Ok(Val("str", Repeat(a.repr, IntOf(b))))
    ELSE IF a.kind = "int" /\ b.kind = "str" /\ op = <<"*">>
        THEN Ok(Val("str", Repeat(b.repr, IntOf(a))))
    ELSE IF a.kind \notin Numeric \/ b.kind \notin Numeric THEN Raise
    ELSE IF op = <<"/">> /\ IsZero(b) THEN Raise
    ELSE IF a.kind = "int" /\ b.kind = "int"
        THEN CASE op = <<"+">> -> Ok(IntVal(IntOf(a) + IntOf(b)))
               [] op = <<"-">> -> Ok(IntVal(IntOf(a) - IntOf(b)))
               [] op = <<"*">> -> Ok(IntVal(IntOf(a) * IntOf(b)))
               [] op = <<"/">> -> Ok(Val("float", Symbolic(op, a, b)))
               [] op = <<"*", "*">> ->
                    IF IntOf(b) >= 0 THEN Ok(IntVal(IntPow(IntOf(a), IntOf(b))))
                    ELSE IF IntOf(a) = 0 THEN Raise
                    ELSE Ok(Val("float", Symbolic(op, a, b)))
    ELSE Ok(Val(Join(a, b), Symbolic(op, a, b)))

\* -a and +a
Negated(v) == Val(v.kind, <<"(", "-">> \o v.repr \o <<")">>)

UnaryOp(op, a) ==
    IF a.kind \notin Numeric THEN Raise
    ELSE IF op = <<"+">> THEN Ok(a)
    ELSE IF a.kind = "int" THEN Ok(IntVal(0 - IntOf(a)))
    ELSE Ok(Negated(a))

\* f(a): only the namespace's functions are callable, and they are numpy's
\* sqrt, exp, log, sin, cos, which take a number.
Call(f, a) ==
    IF f.kind # "function" \/ a.kind \notin Numeric THEN Raise
    ELSE Ok(Val(IF a.kind = "complex" THEN "complex" ELSE "float",
                f.repr \o <<"(">> \o a.repr \o <<")">>))

a_real == <<"r", "e", "a", "l">>
a_imag == <<"i", "m", "a", "g">>
a_class == <<"_", "_", "c", "l", "a", "s", "s", "_", "_">>

KindName(kind) ==
    CASE kind = "int" -> <<"i", "n", "t">>
      [] kind = "float" -> <<"f", "l", "o", "a", "t">>
      [] kind = "complex" -> <<"c", "o", "m", "p", "l", "e", "x">>
      [] kind = "str" -> <<"s", "t", "r">>
      [] kind = "function" -> <<"u", "f", "u", "n", "c">>
      [] kind = "type" -> <<"t", "y", "p", "e">>

\* a.name: nothing in the namespace of line 69 stops attribute access.  Of the
\* attributes Python objects have, real, imag and __class__ are modelled.
GetAttr(a, name) ==
    IF name = a_class THEN Ok(Val("type", KindName(a.kind)))
    ELSE IF name = a_real /\ a.kind \in Numeric
        THEN Ok(IF a.kind = "complex" THEN Val("float", a.repr \o <<".">> \o name)
                ELSE a)
    ELSE IF name = a_imag /\ a.kind \in Numeric
        THEN Ok(CASE a.kind = "int" -> IntVal(0)
                  [] a.kind = "float" -> Val("float", <<"0", ".", "0">>)
                  [] a.kind = "complex" -> Val("float", a.repr \o <<".">> \o name))
    ELSE Raise

\* A name is looked up in the namespace; with __builtins__ empty any other
\* name is a NameError.
Lookup(name) ==
    IF \E m \in 1..Len(namespace) : namespace[m].k = name
    THEN Ok(namespace[CHOOSE m \in 1..Len(namespace) : namespace[m].k = name].v)
    ELSE Raise

----------------------------------------------------------------------------
(* The expression grammar, by recursive descent, with Python's precedence: *)
(* + - below * / below unary - below ** below calls and attribute access.  *)
(* A result is [ok, val, p]: the value and the position of the next token. *)

Fail == [ok |-> FALSE, val |-> None, p |-> 0]
Got(v, p) == [ok |-> TRUE, val |-> v, p |-> p]
Lift(r, p) == IF r.ok THEN Got(r.val, p) ELSE Fail

IsOp(toks, p, ops) == p <= Len(toks) /\ toks[p].t = "op" /\ toks[p].s \in ops

\* Parse(rule, toks, p, left): the grammar rule `rule` applied at token p; for
\* the rules that continue an expression, left is the value read so far.
\*   Expr        Term ExprRest
\*   ExprRest    (("+" | "-") Term)*
\*   Term        Unary TermRest
\*   TermRest    (("*" | "/") Unary)*
\*   Unary       ("+" | "-") Unary | Power
\*   Power       Postfix ["**" Unary]
\*   Postfix     Atom PostfixRest
\*   PostfixRest ("(" Expr ")" | "." name)*
\*   Atom        literal | name | "(" Expr ")"
RECURSIVE Parse(_, _, _, _)
Parse(rule, toks, p, left) ==
    CASE rule = "Expr" ->
            LET l == Parse("Term", toks, p, None)
            IN  IF l.ok THEN Parse("ExprRest", toks, l.p, l.val) ELSE Fail
      [] rule = "ExprRest" ->
            IF IsOp(toks, p, {<<"+">>, <<"-">>})
            THEN LET r == Parse("Term", toks, p + 1, None)
                     v == BinOp(toks[p].s, left, r.val)
                 IN  IF r.ok /\ v.ok THEN Parse("ExprRest", toks, r.p, v.val) ELSE Fail
            ELSE Got(left, p)
      [] rule = "Term" ->
            LET l == Parse("Unary", toks, p, None)
            IN  IF l.ok THEN Parse("TermRest", toks, l.p, l.val) ELSE Fail
      [] rule = "TermRest" ->
            IF IsOp(toks, p, {<<"*">>, <<"/">>})
            THEN LET r == Parse("Unary", toks, p + 1, None)
                     v == BinOp(toks[p].s, left, r.val)
                 IN  IF r.ok /\ v.ok THEN Parse("TermRest", toks, r.p, v.val) ELSE Fail
            ELSE Got(left, p)
      [] rule = "Unary" ->
            IF IsOp(toks, p, {<<"+">>, <<"-">>})
            THEN LET r == Parse("Unary", toks, p + 1, None)
                 IN  IF r.ok THEN Lift(UnaryOp(toks[p].s, r.val), r.p) ELSE Fail
            ELSE Parse("Power", toks, p, None)
      [] rule = "Power" ->
            LET b == Parse("Postfix", toks, p, None)
            IN  IF b.ok /\ IsOp(toks, b.p, {<<"*", "*">>})
                THEN LET x == Parse("Unary", toks, b.p + 1, None)
                     IN  IF x.ok THEN Lift(BinOp(toks[b.p].s, b.val, x.val), x.p)
                         ELSE Fail
                ELSE b
      [] rule = "Postfix" ->
            LET a == Parse("Atom", toks, p, None)
            IN  IF a.ok THEN Parse("PostfixRest", toks, a.p, a.val) ELSE Fail
      [] rule = "PostfixRest" ->
            IF IsOp(toks, p, {<<"(">>})
            THEN LET arg == Parse("Expr", toks, p + 1, None)
                     v == Call(left, arg.val)
                 IN  IF arg.ok /\ IsOp(toks, arg.p, {<<")">>}) /\ v.ok
                     THEN Parse("PostfixRest", toks, arg.p + 1, v.val)
                     ELSE Fail
            ELSE IF IsOp(toks, p, {<<".">>})
            THEN LET v == GetAttr(left, toks[p + 1].s)
                 IN  IF p + 1 <= Len(toks) /\ toks[p + 1].t = "name" /\ v.ok
                     THEN Parse("PostfixRest", toks, p + 2, v.val)
                     ELSE Fail
            ELSE Got(left, p)
      [] rule = "Atom" ->
            IF p > Len(toks) THEN Fail
            ELSE IF toks[p].t \in {"int", "float", "imag", "str"}
                THEN Got(LiteralVal(toks[p]), p + 1)
            ELSE IF toks[p].t = "name" THEN Lift(Lookup(toks[p].s), p + 1)
            ELSE IF IsOp(toks, p, {<<"(">>})
                THEN LET r == Parse("Expr", toks, p + 1, None)
                     IN  IF r.ok /\ IsOp(toks, r.p, {<<")">>}) THEN Got(r.val, r.p + 1)
                         ELSE Fail
            ELSE Fail

\* result = eval(text, {"__builtins__": {}}, namespace): the value, or an
\* exception (SyntaxError, NameError, TypeError, ZeroDivisionError, ...).
eval(text) ==
    LET toks == Tokenize(text)
        r == Parse("Expr", toks, 1, None)
    IN  IF \E m \in 1..Len(toks) : toks[m].t = "bad" THEN Raise
        ELSE IF r.ok /\ r.p = Len(toks) + 1 THEN Ok(r.val)
        ELSE Raise

c_infinity == c_inf \o <<"i", "n", "i", "t", "y">>

\* float(text) (line 76): an optional sign, then digits with an optional
\* decimal point, or inf, infinity or nan.
float(text) ==
    LET s == strip(text)
        signed == Len(s) > 0 /\ s[1] \in {"+", "-"}
        body == IF signed THEN Tail(s) ELSE s
        word == body \in {c_inf, c_infinity, c_nan}
        number == /\ \E m \in 1..Len(body) : body[m] \in DigitSet
                  /\ \A m \in 1..Len(body) : body[m] \in DigitSet \cup {"."}
                  /\ Cardinality({m \in 1..Len(body) : body[m] = "."}) <= 1
        v == IF word THEN Val("float", IF body = c_nan THEN c_nan ELSE c_inf)
             ELSE Val("float",
                      CanonFloat(IF HasPoint(body) THEN body ELSE body \o <<".">>))
    IN  IF ~(word \/ number) THEN Raise
        ELSE IF signed /\ s[1] = "-" THEN Ok(Negated(v))
        ELSE Ok(v)

\* parse_value (lines 39-81), with the step that produced the value.
ParseTrace(text) ==
    LET t == Normalize(text)
    IN  IF \E m \in 1..Len(CONSTANTS_) : CONSTANTS_[m].k = t
            THEN [step |-> "constant",
                  value |-> CONSTANTS_[CHOOSE m \in 1..Len(CONSTANTS_) :
                                          CONSTANTS_[m].k = t].v]
        ELSE IF eval(t).ok THEN [step |-> "eval", value |-> eval(t).val]
        ELSE IF float(t).ok THEN [step |-> "float", value |-> float(t).val]
        ELSE [step |-> "string", value |-> Val("str", t)]

parse_value(text) == ParseTrace(text).value

----------------------------------------------------------------------------
(* VariableInterface.                                                      *)
(*                                                                         *)
(* JUPYTER_MODE    lines 16-22: ipywidgets could be imported               *)
(* n_variables     self.n_variables                                        *)
(* callback        TRUE if a callback is registered (self.callback)        *)
(* value_widgets   dict key -> text of the value field                     *)
(* name_widgets    dict key -> text of the name field                      *)
(* n_input         <<>> for None, <<v>> for the count field holding v      *)
(* var_container   <<>> for None, <<rows>> for the container's children    *)
(* status          the status text; "absent" while self.status is not set  *)
(* raised          the exception the last call let out, "none" if none     *)
(* ret             the method called last                                  *)
(* parse_in, parse_out   a text given to parse_value by itself and the     *)
(*                 value returned (None before the call)                   *)

\* n_variables as given to the constructor (default 3); nothing checks it.
InitCounts == {0, DefaultCount, MaxVars + 1}

\* What the user types into the count field before pressing Update Count.
Requests == (0..MaxReq) \cup {MaxVars + 1}

t_zero == <<"0">>
t_Pi == <<"P", "i", " ">>
t_x == <<"x">>

\* The texts the user types into value fields and name fields.
FormValues == {t_Pi}
FormNames == {t_x}

\* What a call of the callback does: return, raise an exception that derives
\* from Exception, or raise one that does not (KeyboardInterrupt, SystemExit).
Outcomes == {"returns", "Exception", "BaseException"}

Header == <<"h", "e", "a", "d", "e", "r">>

\* One pass of the loop body (lines 193-230) for i, on st = [vw, nw, rows].
BuildStep(i, st) ==
    LET key == Key(i)
        old_val == IF DictHas(st.vw, key) THEN DictGet(st.vw, key) ELSE t_zero
        old_name == IF DictHas(st.nw, key) THEN DictGet(st.nw, key) ELSE Key(i)
    IN  [vw |-> DictSet(st.vw, key, old_val),
         nw |-> DictSet(st.nw, key, old_name),
         rows |-> Append(st.rows, key)]

\* The loop of line 192 for i = lo..hi in increasing order.  The range is
\* halved, and the first half is evaluated before the second is entered, so
\* that the evaluation stays shallow.
RECURSIVE BuildLoop(_, _, _)
BuildLoop(lo, hi, st) ==
    IF lo > hi THEN st
    ELSE IF lo = hi THEN BuildStep(lo, st)
    ELSE LET first == BuildLoop(lo, (lo + hi) \div 2, st)
         IN  IF Len(first.rows) = Len(st.rows) THEN first
             ELSE BuildLoop(((lo + hi) \div 2) + 1, hi, first)

\* A rebuild that keeps the rows beyond the count.
KeysToRemoveNone(vw, n) == <<>>

\* keys_to_remove (line 233)
KeysToRemove(vw, n) == SelectSeq(DictKeys(vw), LAMBDA k : KeyIndex(k) > n)

\* _build_variable_rows (lines 180-238) for the count n.
BuildVariableRows(vw, nw, n) ==
    LET b == BuildLoop(1, n, [vw |-> vw, nw |-> nw, rows |-> <<Header>>])
        ks == KeysToRemove(b.vw, n)
    IN  [vw |-> DictDelAll(b.vw, ks), nw |-> DictDelAll(b.nw, ks), rows |-> b.rows]

\* lines 243-248: the count and what the count field shows, for a typed n.
ClampNoUpper(n) == IF n < MinVars THEN MinVars ELSE n

Clamp(n) ==
    LET low == IF n < MinVars THEN MinVars ELSE n
    IN  IF low > MaxVars THEN MaxVars ELSE low

\* __init__ (lines 89-97)
Init ==
    /\ JUPYTER_MODE \in BOOLEAN
    /\ n_variables \in InitCounts
    /\ callback \in BOOLEAN
    /\ value_widgets = EmptyDict
    /\ name_widgets = EmptyDict
    /\ n_input = <<>>
    /\ var_container = <<>>
    /\ status = "absent"
    /\ raised = "none"
    /\ ret = "__init__"
    /\ parse_in = <<>>
    /\ parse_out = None

\* create_interface (lines 99-178), which create_variable_interface calls
\* once, after the constructor (lines 325-326).
create_interface ==
    /\ status = "absent"
    /\ raised' = "none"
    /\ ret' = "create_interface"
    /\ IF ~JUPYTER_MODE
       THEN UNCHANGED <<n_variables, value_widgets, name_widgets, n_input,
                        var_container, status>>
       ELSE LET b == BuildVariableRows(value_widgets, name_widgets, n_variables)
            IN  /\ n_input' = <<n_variables>>
                /\ value_widgets' = b.vw
                /\ name_widgets' = b.nw
                /\ var_container' = <<b.rows>>
                /\ status' = "Ready"
                /\ UNCHANGED n_variables
    /\ UNCHANGED <<JUPYTER_MODE, callback, parse_in, parse_out>>

\* The user types t into the value field of slot i (the widget of lines 205-210).
EditValue(i, t) ==
    /\ DictHas(value_widgets, Key(i))
    /\ DictGet(value_widgets, Key(i)) # t
    /\ value_widgets' = DictSet(value_widgets, Key(i), t)
    /\ UNCHANGED <<JUPYTER_MODE, n_variables, callback, name_widgets, n_input,
                   var_container, status, raised, ret, parse_in, parse_out>>

\* The user types t into the name field of slot i (the widget of lines 218-223).
EditName(i, t) ==
    /\ DictHas(name_widgets, Key(i))
    /\ DictGet(name_widgets, Key(i)) # t
    /\ name_widgets' = DictSet(name_widgets, Key(i), t)
    /\ UNCHANGED <<JUPYTER_MODE, n_variables, callback, value_widgets, n_input,
                   var_container, status, raised, ret, parse_in, parse_out>>

\* _update_variable_count (lines 240-252), the count field holding n.  Without
\* an interface self.n_input is None and line 242 raises.
update_variable_count(n) ==
    /\ ret' = "_update_variable_count"
    /\ IF n_input = <<>>
       THEN /\ raised' = "AttributeError"
            /\ UNCHANGED <<n_variables, value_widgets, name_widgets, n_input,
                           var_container, status>>
       ELSE LET new_n == Clamp(n)
                b == BuildVariableRows(value_widgets, name_widgets, new_n)
            IN  /\ n_input' = <<new_n>>
                /\ n_variables' = new_n
                /\ value_widgets' = b.vw
                /\ name_widgets' = b.nw
                /\ var_container' = <<b.rows>>
                /\ status' = "Updated"
                /\ raised' = "none"
    /\ UNCHANGED <<JUPYTER_MODE, callback, parse_in, parse_out>>

\* A get_variables that hands the text over unparsed.
get_variables_unparsed(vw, nw) ==
    [m \in 1..DictLen(vw) |->
        Entry(vw.keys[m], [value |-> Val("str", DictGet(vw, vw.keys[m])),
                           raw |-> DictGet(vw, vw.keys[m]),
                           name |-> DictGet(nw, vw.keys[m])])]

\* get_variables (lines 254-268): key -> {value, raw, name}, in the order of
\* value_widgets.
get_variables(vw, nw) ==
    [m \in 1..DictLen(vw) |->
        Entry(vw.keys[m], [value |-> parse_value(DictGet(vw, vw.keys[m])),
                           raw |-> DictGet(vw, vw.keys[m]),
                           name |-> DictGet(nw, vw.keys[m])])]

\* get_values_by_name (lines 270-277): the loop over the keys lo..hi of
\* value_widgets in order (halved like BuildLoop).
\* The loop body (lines 274-276) for the m-th key, with an assignment that
\* does not overwrite.
ByNameStepFirstWins(vw, nw, m, result) ==
    DictSetFirstWins(result, DictGet(nw, vw.keys[m]),
                     parse_value(DictGet(vw, vw.keys[m])))

\* The loop body (lines 274-276) for the m-th key: result[name] = parse_value(raw)
ByNameStep(vw, nw, m, result) ==
    DictSet(result, DictGet(nw, vw.keys[m]), parse_value(DictGet(vw, vw.keys[m])))

RECURSIVE ByNameLoop(_, _, _, _, _)
ByNameLoop(vw, nw, lo, hi, result) ==
    IF lo > hi THEN result
    ELSE IF lo = hi THEN ByNameStep(vw, nw, lo, result)
    ELSE LET first == ByNameLoop(vw, nw, lo, (lo + hi) \div 2, result)
         IN  IF DictLen(first) = 0 THEN first
             ELSE ByNameLoop(vw, nw, ((lo + hi) \div 2) + 1, hi, first)

get_values_by_name(vw, nw) == ByNameLoop(vw, nw, 1, DictLen(vw), EmptyDict)

\* The lists of lines 279-287 look up var1..var<n_variables>: a KeyError if
\* one is missing.
HasAllKeys(d, n) == \A i \in 1..n : DictHas(d, Key(i))

get_values_list(vw, n) == [i \in 1..n |-> parse_value(DictGet(vw, Key(i)))]

get_names_list(nw, n) == [i \in 1..n |-> DictGet(nw, Key(i))]

Unchanged_by_getters ==
    UNCHANGED <<JUPYTER_MODE, n_variables, callback, value_widgets, name_widgets,
                n_input, var_container, status, parse_in, parse_out>>

\* The four getters assign nothing: the model records the call, and the
\* KeyError of a missing key.
GetVariables ==
    /\ ret' = "get_variables"
    /\ raised' = "none"
    /\ Unchanged_by_getters

GetValuesByName ==
    /\ ret' = "get_values_by_name"
    /\ raised' = "none"
    /\ Unchanged_by_getters

GetValuesList ==
    /\ ret' = "get_values_list"
    /\ raised' = IF HasAllKeys(value_widgets, n_variables) THEN "none" ELSE "KeyError"
    /\ Unchanged_by_getters

GetNamesList ==
    /\ ret' = "get_names_list"
    /\ raised' = IF HasAllKeys(name_widgets, n_variables) THEN "none" ELSE "KeyError"
    /\ Unchanged_by_getters

\* An except clause that catches nothing.
CaughtNothing(outcome) == FALSE

\* What the except clause of line 299 catches: `except Exception`.
Caught(outcome) == outcome = "Exception"

\* _on_run (lines 289-310), the callback (if any) ending as `outcome`.  Without
\* an interface self.status was never set and line 290 raises.
on_run(outcome) ==
    /\ ret' = "_on_run"
    /\ IF status = "absent"
       THEN /\ raised' = "AttributeError"
            /\ UNCHANGED status
       ELSE IF ~callback
       THEN /\ outcome = "returns"
            /\ status' = "Printed"
            /\ raised' = "none"
       ELSE IF outcome = "returns"
       THEN /\ status' = "Complete"
            /\ raised' = "none"
       ELSE IF Caught(outcome)
       THEN /\ status' = "Error"
            /\ raised' = "none"
       ELSE /\ status' = "Running"
            /\ raised' = outcome
    /\ UNCHANGED <<JUPYTER_MODE, n_variables, callback, value_widgets, name_widgets,
                   n_input, var_container, parse_in, parse_out>>

Next ==
    \/ create_interface
    \/ \E i \in 1..EditIdx : \E t \in FormValues \cup {t_zero} : EditValue(i, t)
    \/ \E i \in 1..EditIdx : \E t \in FormNames : EditName(i, t)
    \/ \E n \in Requests : update_variable_count(n)
    \/ GetVariables
    \/ GetValuesByName
    \/ GetValuesList
    \/ GetNamesList
    \/ \E outcome \in Outcomes : on_run(outcome)

Spec == Init /\ [][Next]_vars

----------------------------------------------------------------------------
(* parse_value called by itself, on texts made of a core, typed as it is   *)
(* or in capitals, with blanks before and after.                           *)

Cores ==
    { c_pi, c_e, c_i, c_j, c_sqrt2, c_sqrt3, c_phi, c_inf, c_nan,
      <<"2", "*", "p", "i">>,
      <<"e", "*", "*", "2">>,
      <<"s", "q", "r", "t", "(", "2", ")">>,
      <<"3", "+", "4", "j">>,
      <<"s", "i", "n", "(", "p", "i", "/", "2", ")">>,
      <<"2", "*", "*", "-", "1">>,
      <<"-", "5">>,
      <<"4", "2">>,
      <<"2", ".", "5", "0">>,
      <<"(", "3", "+", "4", "j", ")", ".", "i", "m", "a", "g">>,
      <<"a", "b", "c">>,
      <<"2", " ", "p", "i">>,
      <<"1", "/", "0">>,
      <<"2", "*", "n", "a", "n">>,
      <<"s", "q", "r", "t", "(", ")">>,
      <<"1", "+">>,
      <<"0", "0", "7">>,
      c_infinity,
      <<"-">> \o c_infinity,
      <<"_", "_", "i", "m", "p", "o", "r", "t", "_", "_", "(", "'", "o", "s", "'", ")">>,
      c_sqrt,
      <<"(", "1", ")", ".">> \o a_class,
      c_pi \o <<".">> \o a_real,
      c_exp \o <<".">> \o a_class,
      <<"'", "o", "s", "'">> }

RECURSIVE Pad(_)
Pad(n) == IF n = 0 THEN <<>> ELSE <<" ">> \o Pad(n - 1)

ParseTexts ==
    {Pad(a) \o t \o Pad(b) :
        a \in 0..MaxPad, b \in 0..MaxPad, t \in Cores \cup {upper(c) : c \in Cores}}

\* A text is drawn, nothing is parsed yet; the controller is as constructed
\* with its default arguments.
InitParse ==
    /\ JUPYTER_MODE = TRUE
    /\ n_variables = DefaultCount
    /\ callback = FALSE
    /\ value_widgets = EmptyDict
    /\ name_widgets = EmptyDict
    /\ n_input = <<>>
    /\ var_container = <<>>
    /\ status = "absent"
    /\ raised = "none"
    /\ ret = "__init__"
    /\ parse_in \in ParseTexts
    /\ parse_out = None

\* parse_value(parse_in)
ParseValue ==
    /\ parse_out = None
    /\ parse_out' = parse_value(parse_in)
    /\ UNCHANGED <<parse_in, form>>

NextParse == ParseValue

SpecParse == InitParse /\ [][NextParse]_vars

----------------------------------------------------------------------------
(* The claims.                                                             *)

Min(a, b) == IF a < b THEN a ELSE b

\* The interface has been built: the count field exists.
Built == n_input # <<>>

\* The text slot i holds in the dict d.
TextOf(d, i) == DictGet(d, Key(i))

SlotIndices(d) == {KeyIndex(k) : k \in DOMAIN d.map}

\* C1: from the creation of the controller on, the slot indices present are
\* exactly 1..count, and the value texts and the name texts have the same keys.
C1_SlotsAreOneToCount ==
    /\ SlotIndices(value_widgets) = 1..n_variables
    /\ DOMAIN name_widgets.map = DOMAIN value_widgets.map

\* C2: a count change from old to new leaves the texts of slots 1..min(old, new)
\* as they were and gives every slot of old+1..new the value text "0" and the
\* name text "var<i>", whatever the index held before.
C2_CountChangeKeepsAndDefaults ==
    [][\A n \in Requests :
          (Built /\ update_variable_count(n)) =>
              /\ \A i \in 1..Min(n_variables, n_variables') :
                    /\ TextOf(value_widgets', i) = TextOf(value_widgets, i)
                    /\ TextOf(name_widgets', i) = TextOf(name_widgets, i)
              /\ \A i \in (n_variables + 1)..n_variables' :
                    /\ TextOf(value_widgets', i) = t_zero
                    /\ TextOf(name_widgets', i) = <<"v", "a", "r">> \o str(i)]_vars

\* A count change has kept an edited slot and added a slot with the defaults.
C2_Witness ==
    /\ ret = "_update_variable_count"
    /\ raised = "none"
    /\ n_variables >= 2
    /\ TextOf(value_widgets, 1) = t_Pi
    /\ TextOf(name_widgets, 1) = t_x
    /\ TextOf(value_widgets, n_variables) = t_zero
    /\ TextOf(name_widgets, n_variables) = Key(n_variables)

\* C3: a count change requested with n in the count field sets the count to
\* min(max(n, 1), 50), the count field shows that value, and nothing is raised.
C3_CountIsClamped ==
    [][\A n \in Requests :
          (Built /\ update_variable_count(n)) =>
              LET want == IF n < MinVars THEN MinVars
                          ELSE IF n > MaxVars THEN MaxVars ELSE n
              IN  /\ n_variables' = want
                  /\ n_input' = <<want>>
                  /\ raised' = "none"]_vars

\* A request above the range has been clamped.
C3_Witness ==
    /\ ret = "_update_variable_count"
    /\ n_variables = MaxVars
    /\ n_input = <<MaxVars>>
    /\ status = "Updated"

C5_CollectIsOrderedAndReadOnly ==
    /\ [](LET r == get_variables(value_widgets, name_widgets)
          IN  /\ Len(r) = Cardinality(DOMAIN value_widgets.map)
              /\ Built => Len(r) = n_variables
              /\ \A m \in 1..Len(r) :
                    /\ r[m].k = <<"v", "a", "r">> \o str(m)
                    /\ r[m].v.raw = value_widgets.map[r[m].k]
                    /\ r[m].v.name = name_widgets.map[r[m].k]
                    /\ r[m].v.value = ParseTrace(r[m].v.raw).value)
    /\ [][(GetVariables \/ GetValuesByName \/ GetValuesList \/ GetNamesList
             \/ \E outcome \in Outcomes : on_run(outcome))
            => UNCHANGED <<n_variables, value_widgets, name_widgets>>]_vars

\* get_variables has been called on a form whose count was changed and whose
\* first slot holds a constant typed in capitals with a blank.
C5_Witness ==
    /\ ret = "get_variables"
    /\ status = "Updated"
    /\ n_variables = 2
    /\ TextOf(value_widgets, 1) = t_Pi
    /\ get_variables(value_widgets, name_widgets)[1].v.value = Val("float", c_pi)

\* The keys of the slots whose name text is name.
SlotsNamed(name) ==
    {k \in DOMAIN name_widgets.map : name_widgets.map[k] = name}

\* The key of S with the highest index.
Highest(S) == CHOOSE k \in S : \A q \in S : KeyIndex(q) <= KeyIndex(k)

\* C6: get_values_by_name has one entry per distinct name, and the entry of a
\* name is the parsed value of the highest slot that carries the name.
C6_ByNameLaterIndexWins ==
    LET r == get_values_by_name(value_widgets, name_widgets)
        names == {name_widgets.map[k] : k \in DOMAIN name_widgets.map}
    IN  /\ DOMAIN r.map = names
        /\ Len(r.keys) = Cardinality(names)
        /\ \A name \in names :
              r.map[name] = parse_value(value_widgets.map[Highest(SlotsNamed(name))])

\* get_values_by_name has been called with two slots of one name whose values
\* differ.
C6_Witness ==
    /\ ret = "get_values_by_name"
    /\ Built
    /\ n_variables >= 2
    /\ TextOf(name_widgets, 1) = t_x
    /\ TextOf(name_widgets, 2) = t_x
    /\ TextOf(value_widgets, 1) = t_Pi
    /\ TextOf(value_widgets, 2) = t_zero

\* C7: when the text is no constant, no expression and no float, parse_value
\* returns the text as typed, with its case and its blanks.
C7_FallbackReturnsTextAsTyped ==
    (parse_out # None /\ ParseTrace(parse_in).step = "string")
        => parse_out = Val("str", parse_in)

\* The text holds an attribute access (a point that is not part of a number).
HasAttributeAccess(text) ==
    \E m \in 1..Len(Tokenize(text)) :
        Tokenize(text)[m].t = "op" /\ Tokenize(text)[m].s = <<".">>

\* The names of the text that the whitelist does not hold.
ForeignNames(text) ==
    {m \in 1..Len(Tokenize(text)) :
        /\ Tokenize(text)[m].t = "name"
        /\ ~ \E q \in 1..Len(namespace) : namespace[q].k = Tokenize(text)[m].s
        /\ ~ \E q \in 1..Len(CONSTANTS_) : CONSTANTS_[q].k = Tokenize(text)[m].s}

\* C8: the result of parse_value is a real number, a complex number or a
\* string, and a text with a name outside the whitelist or an attribute access
\* is not evaluated: its result comes from the float parse or is the string.
C8_OnlyWhitelistedArithmetic ==
    parse_out # None =>
        /\ parse_out.kind \in {"int", "float", "complex", "str"}
        /\ (HasAttributeAccess(Normalize(parse_in)) \/ ForeignNames(Normalize(parse_in)) # {})
              => ParseTrace(parse_in).step \in {"float", "string"}

\* C9: without the rendering host no interface is created, and every call of
\* the controller returns without raising and without effect.
C9_UnavailableHostCallsDoNotRaise ==
    ~JUPYTER_MODE =>
        /\ raised = "none"
        /\ n_input = <<>> /\ var_container = <<>> /\ status = "absent"
        /\ value_widgets = EmptyDict /\ name_widgets = EmptyDict

\* C10: the count lies in [1, 50] in every reachable state.
C10_CountInRange == n_variables \in MinVars..MaxVars

====
